---------------------------- MODULE Spec2Model ----------------------------
(***************************************************************************)
(* A model of the training engine of vall_e: the single-model Engine       *)
(* (engines/base.py, class Engine), its checkpoint directory, and the      *)
(* multi-engine coordinator's step (class Engines) with its out-of-memory  *)
(* retry loop and the all-reduce between the ranks.                        *)
(*                                                                         *)
(* Three state machines share the module; each specification moves the     *)
(* variables of one of them and leaves the others at their idle values:    *)
(*   Spec      Engine.step on one engine, from any counter values          *)
(*   CkptSpec  Engine.save_checkpoint / load_checkpoint on one directory   *)
(*   StepSpec  Engines.step on every rank of the job                       *)
(***************************************************************************)
EXTENDS Integers, Sequences, FiniteSets, TLC

\* ---------------------------------------------------------------- bounds
\* largest gradient_accumulation_steps tried
MaxAccum == 3
\* largest configured batch_size tried
MaxBatchSize == 2
\* largest counter value an engine is constructed with
MaxInit == 2
\* Engine.step is not called once micro_steps has reached this
MaxMicro == 8
\* checkpoint tags are 0..MaxTag
MaxTag == 1
\* counter profiles an engine is constructed with (CkptSpec)
MaxKw == 1
\* largest keep_last_checkpoints tried
MaxKeep == 1
\* largest world size (number of ranks) tried
MaxWorld == 2
\* largest number of samples in a batch handed to Engines.step
MaxBatch == 2
\* Engines.step is not entered once an engine's micro_steps has reached this
MaxSteps == 1
\* the counts of feeder calls and of their failures stop growing here
MaxAttempts == 6
\* RetainSpec: tags 0..MaxSaveTag, at most MaxSaves saves, a retention limit of
\* at most MaxRetain
MaxSaveTag == 2
MaxSaves == 3
MaxRetain == 2
\* AggSpec: engines step until an engine has made MaxAggSteps micro-steps
\* since its last load, or MaxAggSteps updates in all
MaxAggSteps == 2
\* the training loop: cfg.trainer.iterations is at most MaxIter, frequencies
\* at most MaxFreq, at most MaxEvents events pending, at most MaxLoops passes
\* of the loop, and an effect is counted up to MaxCount times per global step
MaxIter == 2
MaxFreq == 2
MaxEvents == 2
MaxLoops == 4
MaxCount == 3
\* FreezeSpec: a module of MaxParams parameters, frozen up to MaxFreezes
\* times before it is unfrozen
MaxParams == 2
MaxFreezes == 3
\* SampleSpec: beam_width is at most MaxBeam
MaxBeam == 2
\* CacheSpec: a prompt of at most MaxPrompt positions, then at most MaxNew
\* generated ones
MaxPrompt == 4
MaxNew == 3
\* ExportSpec: symbol maps are numbered 0..MaxSymmap
MaxSymmap == 1

VARIABLES
    cfg,        \* the configuration object (config.cfg), fixed after Init
    engine,     \* one Engine: its counters, module weights and optimizer
    exc,        \* the exception the last operation on `engine` raised
    calls,      \* Engine.step calls made on `engine` since Init
    base,       \* `engine` as it was at Init
    dir,        \* the engine's checkpoint directory (save_dir / load_dir)
    lastOp,     \* the last operation on `engine` or `dir`, with its arguments
    saved,      \* the engine as the last successful save_checkpoint wrote it
    engines,    \* per rank, the Engines collection: name -> Engine
    agg,        \* per rank, the collection's aggregate counters (Engines.setup)
    run,        \* per rank, where its Engines.step call stands, and its locals
    disk,       \* cfg.ckpt_dir: engine name -> checkpoint directory
    loop,       \* train(): the console, and per rank the loop's variables
    model,      \* a model (models/base.py): a call of forward or sample
    proc,       \* a process: its environment and the globals of utils/distributed.py
    weights,    \* cfg.ckpt_dir: engine name -> the exported file fp32.pth
    tts         \* the inference loader (inference.TTS) and what it loaded

engineVars == <<engine, exc, calls, base>>
ckptVars == <<dir, lastOp, saved>>
stepVars == <<engines, agg, run, disk>>

\* ------------------------------------------------------------ the Engine
\* `self.optimizer = ... else None`
None == -1

Max(a, b) == IF a >= b THEN a ELSE b

\* Engine.__init__: the counters default to 0, the optimizer to None.
\* module is the version of the weights (optimizer updates applied to them),
\* optimizer the number of updates the optimizer state has seen.
NewEngine(gs, ms, gsamp, tok, module, optimizer, lr_scheduler) ==
    [ global_steps     |-> gs,
      micro_steps      |-> ms,
      global_samples   |-> gsamp,
      tokens_processed |-> tok,
      module           |-> module,
      optimizer        |-> optimizer,
      lr_scheduler     |-> lr_scheduler ]

\* Engine.global_step / Engine.micro_step (properties)
global_step(e) == e.global_steps
micro_step(e) == e.micro_steps

\* A slip of Engine.step: the counter of optimizer updates moves on every
\* micro-step.
EngineStepEveryCall(e) ==
    LET counted == [e EXCEPT !.micro_steps = @ + 1,
                             !.global_samples = @ + cfg.batch_size,
                             !.global_steps = @ + 1]
    IN  IF e.optimizer = None
        THEN [engine |-> counted, exc |-> "AttributeError"]
        ELSE [engine |-> [counted EXCEPT !.module = @ + 1, !.optimizer = @ + 1],
              exc |-> "none"]

\* Engine.step: one micro-step.  The counters move first; the update test
\* reads the micro_steps already incremented; with no optimizer the update
\* raises after global_steps has moved.
EngineStep(e) ==
    LET counted == [e EXCEPT !.micro_steps = @ + 1,
                             !.global_samples = @ + cfg.batch_size]
        update  == (counted.micro_steps + 1)
                     % Max(1, cfg.gradient_accumulation_steps) = 0
        stepped == [counted EXCEPT !.global_steps = @ + 1]
    IN  IF ~update
        THEN [engine |-> counted, exc |-> "none"]
        ELSE IF e.optimizer = None
        THEN [engine |-> stepped, exc |-> "AttributeError"]
        ELSE [engine |-> [stepped EXCEPT !.module = @ + 1, !.optimizer = @ + 1],
              exc |-> "none"]

\* ------------------------------------------------ the checkpoint directory
\* A directory save_dir holds the file "latest" and one subdirectory per tag;
\* a tag is written as its decimal string, which names it one to one.
\*   latest  the content of save_dir/latest, None when the file does not exist
\*   order   the subdirectories that exist, oldest modification time first
\*   file    what <tag>/state.pth holds, for every subdirectory that exists
NoState == [kind |-> "missing"]
PartialState == [kind |-> "partial"]

EmptyDir == [latest |-> None, order |-> <<>>, file |-> <<>>]

Tags(d) == {d.order[i] : i \in 1..Len(d.order)}

Without(seq, x) == SelectSeq(seq, LAMBDA y : y # x)

\* the directory's modification time moves when an entry is created in it
Touch(order, tag) == Append(Without(order, tag), tag)

\* save_path.parent.mkdir(parents=True, exist_ok=True)
Mkdir(d, tag) ==
    IF tag \in Tags(d) THEN d
    ELSE [d EXCEPT !.order = Append(@, tag),
                   !.file = [t \in Tags(d) \cup {tag} |->
                                IF t = tag THEN NoState ELSE d.file[t]]]

\* the dictionary torch.save is given
StateDict(e) ==
    [ kind         |-> "state",
      module       |-> e.module,
      optimizer    |-> e.optimizer,
      lr_scheduler |-> e.lr_scheduler,
      stats        |-> [ global_step      |-> global_step(e),
                         micro_step       |-> micro_step(e),
                         global_samples   |-> e.global_samples,
                         tokens_processed |-> e.tokens_processed ] ]

\* opening state.pth for writing creates it when it is not there
WriteFile(d, tag, content) ==
    [d EXCEPT !.file[tag] = content,
              !.order = IF d.file[tag].kind = "missing" THEN Touch(@, tag) ELSE @]

\* A slip of Engine.save_checkpoint: "latest" is written before the state.
SaveLatestFirst(d, e, tag, write) ==
    LET made == [Mkdir(d, tag) EXCEPT !.latest = tag]
    IN  CASE write = "ok" ->
               [dir |-> WriteFile(made, tag, StateDict(e)), exc |-> "none"]
          [] write = "early" ->
               [dir |-> made, exc |-> "Exception"]
          [] write = "partial" ->
               [dir |-> WriteFile(made, tag, PartialState), exc |-> "Exception"]

\* Engine.save_checkpoint(save_dir, tag).  torch.save either completes
\* ("ok"), fails before it opens the file ("early"), or fails after it has
\* opened and truncated it ("partial"); "latest" is written after it.
EngineSaveCheckpoint(d, e, tag, write) ==
    LET made == Mkdir(d, tag)
    IN  CASE write = "ok" ->
               [dir |-> [WriteFile(made, tag, StateDict(e)) EXCEPT !.latest = tag],
                exc |-> "none"]
          [] write = "early" ->
               [dir |-> made, exc |-> "Exception"]
          [] write = "partial" ->
               [dir |-> WriteFile(made, tag, PartialState), exc |-> "Exception"]

\* the counters and the weights a state file restores
Restored(e, state) ==
    [e EXCEPT !.global_steps     = state.stats.global_step,
              !.micro_steps      = state.stats.micro_step,
              !.global_samples   = state.stats.global_samples,
              !.tokens_processed = state.stats.tokens_processed,
              !.module           = state.module]

\* A slip of Engine.load_checkpoint: a state file that is not there is read
\* as an empty checkpoint.
LoadMissingAsFresh(d, e, tag, load_optimizer_states, load_lr_scheduler_states, accepts) ==
    LET t == IF tag = None THEN d.latest ELSE tag
    IN  IF t = None \/ t \notin Tags(d) \/ d.file[t].kind # "state"
        THEN [engine |-> [e EXCEPT !.global_steps = 0, !.micro_steps = 0,
                                   !.global_samples = 0, !.tokens_processed = 0],
              exc |-> "none"]
        ELSE [engine |-> Restored(e, d.file[t]), exc |-> "none"]

\* A slip of Engine.load_checkpoint: micro_steps is read from the entry
\* of global_step.
LoadSwapsCounters(d, e, tag, load_optimizer_states, load_lr_scheduler_states, accepts) ==
    LET t == IF tag = None THEN d.latest ELSE tag
    IN  IF t = None \/ t \notin Tags(d) \/ d.file[t].kind # "state"
        THEN [engine |-> e, exc |-> "none"]
        ELSE [engine |-> [Restored(e, d.file[t]) EXCEPT
                             !.micro_steps = d.file[t].stats.global_step],
              exc |-> "none"]

\* Engine.load_checkpoint(load_dir, tag, ...).  `accepts` says whether the
\* optimizer's and scheduler's load_state_dict take the call they are given
\* (a state and map_location); a state of None they never take.
EngineLoadCheckpoint(d, e, tag, load_optimizer_states, load_lr_scheduler_states, accepts) ==
    IF tag = None /\ d.latest = None
    THEN [engine |-> e, exc |-> "none"]
    ELSE
    LET t == IF tag = None THEN d.latest ELSE tag
    IN  IF t \notin Tags(d) \/ d.file[t].kind = "missing"
        THEN [engine |-> e, exc |-> "none"]
        ELSE IF d.file[t].kind = "partial"
        THEN [engine |-> e, exc |-> "Exception"]
        ELSE
        LET state   == d.file[t]
            counted == Restored(e, state)
            lo == load_optimizer_states /\ e.optimizer # None
            ls == load_lr_scheduler_states /\ e.lr_scheduler # None
            withOpt == IF lo THEN [counted EXCEPT !.optimizer = state.optimizer]
                       ELSE counted
        IN  IF lo /\ (state.optimizer = None \/ ~accepts)
            THEN [engine |-> counted, exc |-> "TypeError"]
            ELSE IF ls /\ (state.lr_scheduler = None \/ ~accepts)
            THEN [engine |-> withOpt, exc |-> "TypeError"]
            ELSE [engine |-> IF ls THEN [withOpt EXCEPT !.lr_scheduler = state.lr_scheduler]
                             ELSE withOpt,
                  exc |-> "none"]

\* A slip of the pruning: the subdirectories modified first are kept.
PruneNewest(d, keep) ==
    IF keep <= 0 \/ Len(d.order) <= keep THEN d
    ELSE LET kept == SubSeq(d.order, 1, keep)
             keptTags == {kept[i] : i \in 1..Len(kept)}
         IN  [d EXCEPT !.order = kept, !.file = [t \in keptTags |-> d.file[t]]]

\* Engines.save_checkpoint, lines 296-306: the leader keeps the
\* keep_last_checkpoints subdirectories modified last and removes the rest.
Prune(d, keep) ==
    IF keep <= 0 \/ Len(d.order) <= keep THEN d
    ELSE LET kept == SubSeq(d.order, Len(d.order) - keep + 1, Len(d.order))
             keptTags == {kept[i] : i \in 1..Len(kept)}
         IN  [d EXCEPT !.order = kept, !.file = [t \in keptTags |-> d.file[t]]]

\* --------------------------------------------------- the Engines collection
\* the collection's keys, in the order the dictionary holds them
EngineNames == <<"ar", "nar">>
Names == {EngineNames[i] : i \in 1..Len(EngineNames)}

\* the fields of a batch; each holds one element per sample
Fields == {"text", "resps"}

\* `tries = 4`
Tries == 4

Ranks == 0..(cfg.world_size - 1)

\* is_global_leader()
is_global_leader(r) == r = 0

\* A slip of Engine._training: every engine counts as trainable.
AlwaysTraining(n) == TRUE

\* Engine._training: the model's configured `training` flag
\* (True for an engine that was given no _cfg)
Training(n) == cfg.training[n]

\* Engines.setup
NoAggregate == [global_step |-> 0, micro_step |-> 0, batch_size |-> 0, global_samples |-> 0]

\* Engines._update: each aggregate is raised to the largest counter of any
\* member engine
Update(a, engs) ==
    LET over(cur, val(_)) ==
            LET vals == {cur} \cup {val(engs[n]) : n \in Names}
            IN  CHOOSE m \in vals : \A v \in vals : v <= m
        gsOf(e) == global_step(e)
        msOf(e) == micro_step(e)
        bsOf(e) == cfg.batch_size
        smOf(e) == e.global_samples
    IN  [ global_step    |-> over(a.global_step, gsOf),
          micro_step     |-> over(a.micro_step, msOf),
          batch_size     |-> over(a.batch_size, bsOf),
          global_samples |-> over(a.global_samples, smOf) ]

\* Engines.save_checkpoint(tag): every trainable engine is saved under the
\* tag, a failure of its save is caught, and the leader prunes the engine's
\* directory.
EnginesSaveCheckpointTag(dk, tag, engs, writes, r) ==
    [n \in Names |->
        IF ~Training(n) THEN dk[n]
        ELSE LET written == EngineSaveCheckpoint(dk[n], engs[n], tag, writes[n]).dir
             IN  IF cfg.keep_last_checkpoints > 0 /\ is_global_leader(r)
                 THEN Prune(written, cfg.keep_last_checkpoints)
                 ELSE written]

\* Engines.save_checkpoint(): the tag is the collection's global step (a
\* save_tag of "step")
EnginesSaveCheckpoint(dk, engs, a, writes, r) ==
    EnginesSaveCheckpointTag(dk, a.global_step, engs, writes, r)

\* ------------------------------------------------------------ Engines.step
\* A rank's call of Engines.step: `st` holds its position and locals,
\*   pc      idle, forward (about to call the feeder), fwd_reduce / bwd_reduce
\*           (inside all_reduce), fwd_after / bwd_after (past it), backward
\*           (about to call engine.backward), returned, raised
\*   idx     the position in EngineNames of the engine being processed
\*   batch   the number of elements of each field of `batch`
\*   stats   the names statistics were recorded under; it: stats["it"]
\* and, for the claims, what happened in this call: fed / ooms (feeder calls
\* and their memory-exhaustion failures per engine), out (the feeder's last
\* outcome), bwd / bout (the same for engine.backward), stepped (engine.step
\* calls), saves (save_checkpoint calls), error and at (what was raised, for
\* which engine), turn (the parity of the feeder calls made, which tells one
\* attempt of the retry loop from the next).  given is the batch as the
\* caller passed it; batch is the local `batch` of the call, one for all the
\* engines of the loop.
ZeroCount == [n \in Names |-> 0]
NoOutcome == [n \in Names |-> "unset"]

IdleRun ==
    [ pc |-> "idle", idx |-> 0, tries |-> 0, n_ooms |-> 0,
      batch |-> [f \in Fields |-> 0], given |-> [f \in Fields |-> 0], res |-> "unset",
      stats |-> {}, it |-> None,
      fed |-> ZeroCount, ooms |-> ZeroCount, out |-> NoOutcome,
      bwd |-> ZeroCount, bout |-> NoOutcome, stepped |-> ZeroCount,
      saves |-> 0, error |-> "none", at |-> "none", turn |-> 0 ]

\* a rank's state: its step, its engines, its aggregates, and the shared disk
Rank(st, engs, a, dk) == [st |-> st, engs |-> engs, a |-> a, dk |-> dk]

Bump(c) == IF c < MaxAttempts THEN c + 1 ELSE c

\* A slip of lines 401-402: only the field "text" is shortened.
ShrinkText(batch) == [f \in Fields |-> IF f = "text" THEN Max(batch[f] - 1, 0) ELSE batch[f]]

\* `batch[k] = batch[k][:-1]` for every k
Shrink(batch) == [f \in Fields |-> Max(batch[f] - 1, 0)]

\* `raise`: the call ends with the error, for engine n
Raise(rs, err, n) ==
    [rs EXCEPT !.st.pc = "raised", !.st.error = err, !.st.at = n]

\* `self.save_checkpoint()` and then `raise`
SaveAndRaise(rs, err, n, writes, r) ==
    Raise([rs EXCEPT !.dk = EnginesSaveCheckpoint(rs.dk, rs.engs, rs.a, writes, r),
                     !.st.saves = @ + 1],
          err, n)

\* lines 473-480: the aggregates are updated and the statistics returned
Finish(rs) ==
    LET a == Update(rs.a, rs.engs)
    IN  [rs EXCEPT !.a = a, !.st.pc = "returned", !.st.idx = 0, !.st.it = a.global_step]

\* the loop over the engines, from position i on: the engines that are not
\* trainable are passed over; lines 381-384 for the next trainable one
Enter(rs, i) ==
    LET rest == {j \in i..Len(EngineNames) : Training(EngineNames[j])}
    IN  IF rest = {} THEN Finish(rs)
        ELSE LET j == CHOOSE k \in rest : \A m \in rest : k <= m
             IN  [rs EXCEPT !.st.pc = "forward", !.st.idx = j, !.st.tries = Tries,
                            !.st.n_ooms = 0, !.st.res = "unset"]

\* `if world_size() > 1: all_reduce(n_ooms)`: the rank enters the all-reduce,
\* or goes on to the test of n_ooms
Reduce(rs, phase) ==
    [rs EXCEPT !.st.pc = IF cfg.world_size > 1 THEN phase \o "_reduce"
                         ELSE phase \o "_after"]

\* lines 449-471: engine.step() and the engine's statistics, then the next
\* engine
StepEngine(rs) ==
    LET n == EngineNames[rs.st.idx]
        stepped == EngineStep(rs.engs[n])
        counted == [rs EXCEPT !.engs[n] = stepped.engine, !.st.stepped[n] = @ + 1]
    IN  IF stepped.exc # "none" THEN Raise(counted, stepped.exc, n)
        ELSE Enter([counted EXCEPT !.st.stats = @ \cup {n}], rs.st.idx + 1)

\* A slip of lines 418-419: the engine goes on to backward whatever the
\* feeder returned.
AfterFeederNoSkip(rs) == [rs EXCEPT !.st.pc = "backward", !.st.n_ooms = 0]

\* lines 418-427: a feeder that returned nothing skips the engine
AfterFeeder(rs) ==
    IF rs.st.res = "nothing" THEN Enter(rs, rs.st.idx + 1)
    ELSE [rs EXCEPT !.st.pc = "backward", !.st.n_ooms = 0]

\* A slip of the retry loop: every memory-exhaustion failure is counted in
\* n_ooms.
CountsEveryOom(tries) == TRUE

\* `if tries <= 0: n_ooms += 1`
CountsOom(tries) == tries <= 0

\* A slip of the handlers of lines 396-398 and 437-439: the error is raised
\* again without the checkpoint.
RaiseWithoutSave(rs, n, writes, r) == Raise(rs, "RuntimeError", n)

\* lines 396-398 and 437-439: a RuntimeError that is not memory exhaustion
\* is raised again after save_checkpoint
Fatal(rs, n, writes, r) == SaveAndRaise(rs, "RuntimeError", n, writes, r)

\* One call of the feeder for the current engine, lines 386-410.  `out` is
\* what the feeder does: returns a loss, returns nothing, raises a
\* RuntimeError of memory exhaustion (oom) or another RuntimeError (error).
FeederCall(rs, out, writes, r) ==
    LET n   == EngineNames[rs.st.idx]
        fed == [rs EXCEPT !.st.fed[n] = Bump(@), !.st.out[n] = out,
                          !.st.turn = 1 - @,
                          !.st.ooms[n] = IF out = "oom" THEN Bump(@) ELSE @]
        got == [fed EXCEPT !.st.res = out]
    IN  IF ~cfg.check_for_oom
        THEN CASE out \in {"loss", "nothing"} -> AfterFeeder(got)
               [] out = "oom"   -> Raise(fed, "OutOfMemory", n)
               [] out = "error" -> Raise(fed, "RuntimeError", n)
        ELSE IF rs.st.tries < 0
        THEN Reduce(rs, "fwd")
        ELSE CASE out \in {"loss", "nothing"} -> Reduce(got, "fwd")
               [] out = "error" -> Fatal(fed, n, writes, r)
               [] out = "oom"   ->
                    [fed EXCEPT !.st.batch = Shrink(@),
                                !.st.n_ooms = IF CountsOom(rs.st.tries) THEN @ + 1 ELSE @]

\* lines 414-419, past the all-reduce of the forward pass
ForwardChecked(rs, writes, r) ==
    LET n == EngineNames[rs.st.idx]
    IN  IF rs.st.n_ooms > 0
        THEN SaveAndRaise(rs, "Out of memory during forward pass!", n, writes, r)
        ELSE IF rs.st.res = "unset" THEN Raise(rs, "UnboundLocalError", n)
        ELSE AfterFeeder(rs)

\* A slip of the backward pass: after a memory-exhaustion failure
\* engine.backward is called again.
BackwardOomRetried(rs) == [rs EXCEPT !.st.pc = "backward"]

\* `n_ooms += 1` and on to the all-reduce: engine.backward is not called again
BackwardOom(rs) == Reduce([rs EXCEPT !.st.n_ooms = @ + 1], "bwd")

\* The call of engine.backward for the current engine, lines 429-441
BackwardCall(rs, out, writes, r) ==
    LET n   == EngineNames[rs.st.idx]
        ran == [rs EXCEPT !.st.bwd[n] = Bump(@), !.st.bout[n] = out]
    IN  IF ~cfg.check_for_oom
        THEN CASE out = "ok"    -> StepEngine(ran)
               [] out = "oom"   -> Raise(ran, "OutOfMemory", n)
               [] out = "error" -> Raise(ran, "RuntimeError", n)
        ELSE CASE out = "ok"    -> Reduce(ran, "bwd")
               [] out = "oom"   -> BackwardOom(ran)
               [] out = "error" -> Fatal(ran, n, writes, r)

\* lines 445-449, past the all-reduce of the backward pass
BackwardChecked(rs, writes, r) ==
    LET n == EngineNames[rs.st.idx]
    IN  IF rs.st.n_ooms > 0
        THEN SaveAndRaise(rs, "Out of memory during backwards pass!", n, writes, r)
        ELSE StepEngine(rs)

\* One whole call of Engines.step in a run of one process, from its entry to
\* its return or raise: feed[n] is what the feeder does for engine n (on each
\* of its calls) and back[n] what engine.backward does.
RECURSIVE Advance(_, _, _, _, _)
Advance(rs, feed, back, writes, r) ==
    LET n == EngineNames[rs.st.idx]
    IN  CASE rs.st.pc = "forward" ->
               Advance(FeederCall(rs, feed[n], writes, r), feed, back, writes, r)
          [] rs.st.pc = "fwd_after" ->
               Advance(ForwardChecked(rs, writes, r), feed, back, writes, r)
          [] rs.st.pc = "backward" ->
               Advance(BackwardCall(rs, back[n], writes, r), feed, back, writes, r)
          [] rs.st.pc = "bwd_after" ->
               Advance(BackwardChecked(rs, writes, r), feed, back, writes, r)
          [] OTHER -> rs

EnginesStep(engs, a, dk, batch, feed, back, writes, r) ==
    Advance(Enter(Rank([IdleRun EXCEPT !.batch = [f \in Fields |-> batch],
                                      !.given = [f \in Fields |-> batch]],
                       engs, a, dk), 1),
            feed, back, writes, r)

\* Engines.load_checkpoint(tag): every engine, trainable or not, loads from
\* its directory; with restart_step_count the counters are then zeroed, but
\* `engine.mocro_step = 0` leaves micro_steps as loaded.  An engine's failure
\* ends the call: the engines after it are not loaded, the aggregates not
\* updated.
RECURSIVE LoadFrom(_, _, _, _, _, _, _)
LoadFrom(i, engs, dk, tag, load_states, restart, accepts) ==
    IF i > Len(EngineNames) THEN [engs |-> engs, exc |-> "none"]
    ELSE LET n == EngineNames[i]
             r == EngineLoadCheckpoint(dk[n], engs[n], tag, load_states, load_states, accepts)
             zeroed == IF restart
                       THEN [r.engine EXCEPT !.global_steps = 0, !.global_samples = 0,
                                             !.tokens_processed = 0]
                       ELSE r.engine
         IN  IF r.exc # "none" THEN [engs |-> [engs EXCEPT ![n] = r.engine], exc |-> r.exc]
             ELSE LoadFrom(i + 1, [engs EXCEPT ![n] = zeroed], dk, tag,
                           load_states, restart, accepts)

EnginesLoadCheckpoint(engs, a, dk, tag, load_states, restart, accepts) ==
    LET r == LoadFrom(1, engs, dk, tag, load_states, restart, accepts)
    IN  [ engs |-> r.engs,
          a    |-> IF r.exc = "none" THEN Update(a, r.engs) ELSE a,
          exc  |-> r.exc ]

\* ----------------------------------------------------- train(): the console
\* A line of the console is the sequence of its words; "@" is a word of its
\* own ("save@1" is <<"save", "@", "1">>) and "" is <<>>.  No word of the
\* lines considered holds another as a proper substring, so `"lr" in command`
\* is: "lr" is one of its words.
NoLine == <<>>

Contains(line, word) == \E i \in 1..Len(line) : line[i] = word

\* command.split("@")
RECURSIVE SplitAt(_)
SplitAt(line) ==
    IF ~Contains(line, "@") THEN <<line>>
    ELSE LET i == CHOOSE k \in 1..Len(line) :
                      line[k] = "@" /\ \A m \in 1..(k - 1) : line[m] # "@"
         IN  <<SubSeq(line, 1, i - 1)>> \o SplitAt(SubSeq(line, i + 1, Len(line)))

\* int(text) and float(text): the value, or None when they raise ValueError
Number(text) ==
    IF Len(text) # 1 THEN None
    ELSE CASE text[1] = "0" -> 0
           [] text[1] = "1" -> 1
           [] text[1] = "2" -> 2
           [] text[1] = "3" -> 3
           [] OTHER -> None

\* command.split(" ")[-1]
LastWord(line) == IF line = <<>> THEN <<>> ELSE <<line[Len(line)]>>

\* the loop's variables on one rank, lines 219-233, and what the loop has done
\*   pc     poll0 (the pre-loop command), top (of the loop body), poll (the
\*          command of this pass), done
\*   how    how train() ended: quit, break, or the error that left it
\*   polls  the calls of _non_blocking_input so far; g_command is the
\*          module's global `_command`, the line the last call returned
\*   mode   the engines' mode, train or eval
\*   runs   for each pending event, the passes in which it was carried out
\*   saves, evals, exports   how often engines.save_checkpoint, eval_fn and
\*          engines.export were called in the loop at each global step
NoCounts == [g \in 0..(MaxIter + 1) |-> 0]

NewLoop ==
    [ pc |-> "poll0", how |-> "", polls |-> 0, passes |-> 0,
      g_command |-> NoLine, command |-> NoLine, events |-> <<>>, runs |-> <<>>,
      last_save_step |-> 0, last_eval_step |-> 0,
      mode |-> "train", lr |-> None,
      saves |-> NoCounts, evals |-> NoCounts, exports |-> NoCounts ]

Count(c) == IF c < MaxCount THEN c + 1 ELSE c

\* a rank's loop, its engines and aggregates, and the shared disk
Train(lp, engs, a, dk) == [lp |-> lp, engs |-> engs, a |-> a, dk |-> dk]

Ended(ts, how) == [ts EXCEPT !.lp.pc = "done", !.lp.how = how]

\* lines 262-269: a line with "@" schedules an event and is no command
Schedule(ts, line) ==
    IF ~Contains(line, "@") THEN [ts EXCEPT !.lp.command = line]
    ELSE LET parts == SplitAt(line)
         IN  IF Len(parts) # 2 THEN Ended(ts, "ValueError")
             ELSE IF Number(parts[2]) = None
             THEN [ts EXCEPT !.lp.command = NoLine]
             ELSE [ts EXCEPT !.lp.command = NoLine,
                             !.lp.events = Append(@, <<parts[1], Number(parts[2])>>),
                             !.lp.runs = Append(@, 0)]

\* lines 272-273: the events that are not past, and the commands of this pass
Pending(events, gs) == SelectSeq(events, LAMBDA e : e[2] >= gs)

\* runs[i] is the number of passes completed in which events[i] was one of
\* the commands carried out; it is kept in step with the list of events
RECURSIVE PendingRuns(_, _, _)
PendingRuns(events, runs, gs) ==
    IF events = <<>> THEN <<>>
    ELSE (IF Head(events)[2] >= gs THEN <<Head(runs)>> ELSE <<>>) \o
         PendingRuns(Tail(events), Tail(runs), gs)

Ran(events, runs, gs) ==
    [i \in 1..Len(events) |-> IF events[i][2] = gs THEN Count(runs[i]) ELSE runs[i]]

Due(events, gs) ==
    LET due == SelectSeq(events, LAMBDA e : e[2] = gs)
    IN  [i \in 1..Len(due) |-> due[i][1]]

\* train_dl.dataset.save_state_dict; engines.save_checkpoint();
\* last_save_step = engines.global_step
SaveNow(ts, r) ==
    LET gs == ts.a.global_step
    IN  [ts EXCEPT !.dk = EnginesSaveCheckpoint(ts.dk, ts.engs, ts.a,
                                                [n \in Names |-> "ok"], r),
                   !.lp.saves[gs] = Count(@),
                   !.lp.last_save_step = gs]

\* `if is_global_leader(): engines.export(...)`
ExportNow(ts, r) ==
    IF is_global_leader(r) THEN [ts EXCEPT !.lp.exports[ts.a.global_step] = Count(@)]
    ELSE ts

\* F(v), with v evaluated once
With(v, F(_)) == CHOOSE out \in {F(x) : x \in {v}} : TRUE

\* lines 280-281
ClearEvents(ts, command) ==
    IF command = <<"event", "clear">>
    THEN [ts EXCEPT !.lp.events = <<>>, !.lp.runs = <<>>] ELSE ts

\* lines 294-300: engines.set_lr(rate), inside a try
SetRate(ts, command) ==
    IF Contains(command, "lr")
    THEN [ts EXCEPT !.lp.lr = Number(LastWord(command))] ELSE ts

\* lines 302-308
Export(ts, command, r) ==
    IF Contains(command, "export")
    THEN With(SaveNow(ts, r), LAMBDA written : ExportNow(written, r))
    ELSE ts

\* lines 310-331
Save(ts, command, r) ==
    LET gs == ts.a.global_step
        save_ckpt_every == IF cfg.save_frequency # 0 THEN cfg.save_frequency
                           ELSE cfg.evaluation_frequency
        saving_commands == {<<"save">>} \cup
                           (IF cfg.save_on_quit THEN {<<"quit">>} ELSE {})
        export_commands == {<<"export">>} \cup
                           (IF cfg.export_on_quit THEN {<<"quit">>} ELSE {}) \cup
                           (IF cfg.export_on_save THEN {<<"save">>} ELSE {})
    IN  IF /\ gs # ts.lp.last_save_step
           /\ (gs % save_ckpt_every = 0 \/ command \in saving_commands)
        THEN With(SaveNow(ts, r), LAMBDA written :
                 IF command \in export_commands THEN ExportNow(written, r)
                 ELSE written)
        ELSE ts

\* A slip of lines 337-340: the evaluation is not recorded in last_eval_step.
EvaluateUntracked(ts, r) ==
    [ts EXCEPT !.lp.evals[ts.a.global_step] = IF is_global_leader(r) THEN Count(@) ELSE @,
               !.lp.mode = "train"]

\* lines 335-340: engines.eval(); eval_fn, which runs on the global leader
\* only; engines.train(); last_eval_step = engines.global_step
Evaluate(ts, r) ==
    [ts EXCEPT !.lp.evals[ts.a.global_step] = IF is_global_leader(r) THEN Count(@) ELSE @,
               !.lp.mode = "train",
               !.lp.last_eval_step = ts.a.global_step]

\* lines 333-340
Eval(ts, command, r) ==
    IF /\ ts.a.global_step # ts.lp.last_eval_step
       /\ (ts.a.global_step % cfg.evaluation_frequency = 0 \/ command = <<"eval">>)
    THEN Evaluate(ts, r)
    ELSE ts

\* lines 276-343 for one command of the pass.  The result's pc is "done" when
\* the command ended train() (quit, or an error that is not caught).  The
\* handlers of "event show" and of "time" change nothing: they log, and the
\* int() of "time ... to ..." is inside a try.  The float() of line 295 is
\* outside the try of lines 296-300.
Execute(ts, command, r) ==
    With(ClearEvents(ts, command), LAMBDA cleared :
    IF Contains(command, "lr") /\ Number(LastWord(command)) = None
    THEN Ended(cleared, "ValueError")
    ELSE
    With(SetRate(cleared, command), LAMBDA rated :
    With(Export(rated, command, r), LAMBDA exported :
    With(Save(exported, command, r), LAMBDA written :
    With(Eval(written, command, r), LAMBDA evaluated :
    IF command = <<"quit">> THEN Ended(evaluated, "quit") ELSE evaluated)))))

\* `for command in commands:`
RECURSIVE ExecuteAll(_, _, _)
ExecuteAll(ts, commands, r) ==
    IF commands = <<>> THEN ts
    ELSE With(Execute(ts, Head(commands), r), LAMBDA done :
             IF done.lp.pc = "done" THEN done
             ELSE ExecuteAll(done, Tail(commands), r))

\* lines 262-343 of a pass whose console line is `line`: then on to the top
\* of the loop
HandleCommands(ts, line, r) ==
    With(Schedule(ts, line), LAMBDA scheduled :
    IF scheduled.lp.pc = "done" THEN scheduled
    ELSE
    With([scheduled EXCEPT !.lp.events = Pending(@, ts.a.global_step),
                           !.lp.runs = PendingRuns(scheduled.lp.events, @, ts.a.global_step)],
         LAMBDA kept :
    With(ExecuteAll(kept, <<kept.lp.command>> \o Due(kept.lp.events, ts.a.global_step), r),
         LAMBDA handled :
    IF handled.lp.pc = "done" THEN handled
    ELSE [handled EXCEPT !.lp.pc = "top",
                         !.lp.runs = Ran(handled.lp.events, @, ts.a.global_step)])))

\* A slip of _non_blocking_input: every rank reads its own standard input.
EveryRankReads(r, typed, sent, polls) == typed

\* _non_blocking_input() on rank r, at its call number polls + 1: the global
\* leader reads the line typed on its standard input (`typed`, "" when there
\* is none); with more than one process the leader's line is broadcast, and
\* `sent` are the lines broadcast so far.
non_blocking_input(r, typed, sent, polls) ==
    IF is_global_leader(r) THEN typed
    ELSE IF cfg.world_size > 1 THEN sent[polls + 1]
    ELSE NoLine

\* broadcast_object_list(l, src=0), on the leader
Broadcast(r, typed, sent) ==
    IF is_global_leader(r) /\ cfg.world_size > 1 THEN Append(sent, typed) ELSE sent

\* a non-leader's broadcast_object_list returns once the leader has sent
Receives(r, sent, polls) ==
    is_global_leader(r) \/ cfg.world_size = 1 \/ Len(sent) > polls

\* lines 224-233: the pre-loop command, and the loop's trackers
Begin(ts, line, r) ==
    LET heard == [ts EXCEPT !.lp.polls = @ + 1, !.lp.g_command = line,
                            !.lp.command = line]
        evaluated == IF line \in {<<"eval">>, <<"eval_quit">>}
                     THEN [heard EXCEPT !.lp.mode = "train"] ELSE heard
    IN  IF line \in {<<"quit">>, <<"eval_quit">>} THEN Ended(evaluated, "quit")
        ELSE [evaluated EXCEPT !.lp.pc = "top",
                               !.lp.last_save_step = ts.a.global_step,
                               !.lp.last_eval_step = 0]

\* the top-level entries of the statistics Engines.step returns (lines
\* 455-480): one group per engine stepped, "elapsed_time" when the collection
\* has more than one engine, and "it"
Keys(st) ==
    st.stats \cup {"it"} \cup
    (IF Cardinality(Names) > 1 THEN {"elapsed_time"} ELSE {})

\* lines 243-258: `stats['it'] = stats['global_step']` raises KeyError when
\* the statistics have no such entry; then on to the command of the pass
Decorate(ts, keys) ==
    IF "global_step" \in keys THEN [ts EXCEPT !.lp.pc = "poll"]
    ELSE Ended(ts, "KeyError")

\* lines 236-258, from the top of the loop body to the poll of the console:
\* the iteration check, engines.step and the decoration of its statistics.
\* `more` are entries of the statistics besides those of Keys.
Resume(ts, feed, back, r, more) ==
    IF ts.a.global_step >= cfg.iterations THEN Ended(ts, "break")
    ELSE With(EnginesStep(ts.engs, ts.a, ts.dk, 1, feed, back,
                          [n \in Names |-> "ok"], r), LAMBDA rs :
         With([ts EXCEPT !.engs = rs.engs, !.a = rs.a, !.dk = rs.dk], LAMBDA stepped :
             IF rs.st.pc = "raised" THEN Ended(stepped, rs.st.error)
             ELSE Decorate(stepped, Keys(rs.st) \cup more)))

\* lines 260-343: the poll of the console and the commands of the pass
Command(ts, line, r) ==
    With([ts EXCEPT !.lp.polls = @ + 1, !.lp.passes = @ + 1, !.lp.g_command = line],
         LAMBDA heard : HandleCommands(heard, line, r))

\* -------------------------------------------------- Spec: Engine.step alone
Config(gas, bs, keep) ==
    [ gradient_accumulation_steps |-> gas,
      batch_size                  |-> bs,
      keep_last_checkpoints       |-> keep,
      check_for_oom               |-> FALSE,
      world_size                  |-> 1,
      training                    |-> [n \in {"ar", "nar"} |-> TRUE] ]

\* train() has not been called
NoLoop == <<>>

\* no model is looked at; no process is looked at
NoModel == <<>>
NoProcess == <<>>
NoWeights == <<>>
NoTTS == <<>>

IdleOp == [op |-> "none"]
NoSnapshot == [valid |-> FALSE]

InitEngine ==
    /\ \E gas \in 1..MaxAccum, bs \in 1..MaxBatchSize : cfg = Config(gas, bs, 0)
    /\ \E gs \in 0..MaxInit, ms \in 0..MaxInit, gsamp \in 0..1, opt \in {None, 0} :
          engine = NewEngine(gs, ms, gsamp, 0, 0, opt, None)
    /\ exc = "none"
    /\ calls = 0
    /\ base = engine
    /\ dir = EmptyDir
    /\ lastOp = IdleOp
    /\ saved = NoSnapshot
    /\ engines = <<>> /\ agg = <<>> /\ run = <<>> /\ disk = <<>>
    /\ model = NoModel
    /\ proc = NoProcess
    /\ weights = NoWeights
    /\ tts = NoTTS
    /\ loop = NoLoop

Step ==
    /\ engine.micro_steps < MaxMicro
    /\ engine' = EngineStep(engine).engine
    /\ exc' = EngineStep(engine).exc
    /\ calls' = calls + 1
    /\ UNCHANGED <<cfg, weights, tts, model, proc, loop, base, ckptVars, stepVars>>

\* ------------------------------------- CkptSpec: one engine, one directory
\* the counters and the model an engine is constructed with (Engine.__init__'s
\* keywords): the defaults, or four counters that differ from each other
Profiles ==
    {<<0, 0, 0, 0, 0>>} \cup {<<k, k + 1, k + 2, k + 3, k>> : k \in 1..MaxKw}

\* an engine is constructed with neither optimizer nor scheduler, or with
\* both, their states those of as many updates as global_steps counts
Trainers(p) == {<<None, None>>, <<p[1], p[1]>>}

FreshEngine == NewEngine(0, 0, 0, 0, 0, None, None)

InitCkpt ==
    /\ \E keep \in 0..MaxKeep : cfg = Config(1, 1, keep)
    /\ engine = FreshEngine
    /\ exc = "none"
    /\ calls = 0
    /\ base = engine
    /\ dir = EmptyDir
    /\ lastOp = IdleOp
    /\ saved = NoSnapshot
    /\ engines = <<>> /\ agg = <<>> /\ run = <<>> /\ disk = <<>>
    /\ model = NoModel
    /\ proc = NoProcess
    /\ weights = NoWeights
    /\ tts = NoTTS
    /\ loop = NoLoop

\* a new Engine object (a new process, or another model) over the directory
Construct ==
    /\ \E p \in Profiles : \E t \in Trainers(p) :
          engine' = NewEngine(p[1], p[2], p[3], p[4], p[5], t[1], t[2])
    /\ exc' = "none"
    /\ lastOp' = [op |-> "construct"]
    /\ UNCHANGED <<cfg, weights, tts, model, proc, loop, calls, base, dir, saved, stepVars>>

\* engine.save_checkpoint(dir, tag)
SaveCheckpoint ==
    \E tag \in 0..MaxTag, write \in {"ok", "early", "partial"} :
        LET r == EngineSaveCheckpoint(dir, engine, tag, write)
        IN  /\ dir' = r.dir
            /\ exc' = r.exc
            /\ lastOp' = [op |-> "save"]
            /\ saved' = IF write = "ok"
                        THEN [valid |-> TRUE, tag |-> tag, engine |-> engine]
                        ELSE NoSnapshot
            /\ UNCHANGED <<cfg, weights, tts, model, proc, loop, engine, calls, base, stepVars>>

\* engine.load_checkpoint(dir, tag, ...)
LoadCheckpoint ==
    \E tag \in {None} \cup (0..MaxTag), lo \in BOOLEAN, accepts \in BOOLEAN :
        LET r == EngineLoadCheckpoint(dir, engine, tag, lo, lo, accepts)
        IN  /\ engine' = r.engine
            /\ exc' = r.exc
            /\ lastOp' = [op |-> "load", tag |-> tag]
            /\ UNCHANGED <<cfg, weights, tts, model, proc, loop, calls, base, dir, saved, stepVars>>

\* Engines.save_checkpoint(tag) on the leader, for a collection that holds
\* this engine: a failed engine.save_checkpoint is caught, then the pruning
SaveAndPrune ==
    \E tag \in 0..MaxTag, write \in {"ok", "early", "partial"} :
        LET r == EngineSaveCheckpoint(dir, engine, tag, write)
        IN  /\ dir' = Prune(r.dir, cfg.keep_last_checkpoints)
            /\ exc' = "none"
            /\ lastOp' = [op |-> "save_all"]
            /\ saved' = NoSnapshot
            /\ UNCHANGED <<cfg, weights, tts, model, proc, loop, engine, calls, base, stepVars>>

\* ------------------------------------------ StepSpec: Engines.step per rank
Writes == [Names -> {"ok", "early", "partial"}]

\* the engines load_engines builds: a model that is not trained gets no
\* optimizer; the counters start at zero
LoadedEngine(n) ==
    NewEngine(0, 0, 0, 0, 0, IF cfg.training[n] THEN 0 ELSE None, None)

StepConfig(gas, keep, oom, world, training) ==
    [Config(gas, 1, keep) EXCEPT !.check_for_oom = oom,
                                 !.world_size = world,
                                 !.training = training]

InitCollection ==
    /\ engines = [r \in Ranks |-> [n \in Names |-> LoadedEngine(n)]]
    /\ agg = [r \in Ranks |-> NoAggregate]
    /\ run = [r \in Ranks |-> IdleRun]
    /\ disk = [n \in Names |-> EmptyDir]
    /\ model = NoModel
    /\ proc = NoProcess
    /\ weights = NoWeights
    /\ tts = NoTTS
    /\ loop = NoLoop
    /\ engine = FreshEngine
    /\ exc = "none"
    /\ calls = 0
    /\ base = engine
    /\ dir = EmptyDir
    /\ lastOp = IdleOp
    /\ saved = NoSnapshot

\* a run of one process
InitStep ==
    /\ \E gas \in 1..MaxAccum, keep \in 0..MaxKeep, oom \in BOOLEAN,
          training \in [Names -> BOOLEAN] :
          cfg = StepConfig(gas, keep, oom, 1, training)
    /\ InitCollection

\* a run of MaxWorld processes, with "ar" trained and "nar" not
InitRanks ==
    /\ \E oom \in BOOLEAN :
          cfg = StepConfig(1, 0, oom, MaxWorld, [n \in Names |-> n = "ar"])
    /\ InitCollection

Here(r) == Rank(run[r], engines[r], agg[r], disk)

Becomes(r, rs) ==
    /\ run' = [run EXCEPT ![r] = rs.st]
    /\ engines' = [engines EXCEPT ![r] = rs.engs]
    /\ agg' = [agg EXCEPT ![r] = rs.a]
    /\ disk' = rs.dk
    /\ UNCHANGED <<cfg, weights, tts, model, proc, loop, engineVars, ckptVars>>

\* rank r calls engines.step(batch, feeder), lines 362-373
BeginStep(r) ==
    /\ run[r].pc \in {"idle", "returned"}
    /\ \A n \in Names : engines[r][n].micro_steps < MaxSteps
    /\ \E b \in 1..MaxBatch :
          Becomes(r, Enter(Rank([IdleRun EXCEPT !.batch = [f \in Fields |-> b],
                                              !.given = [f \in Fields |-> b]],
                                engines[r], agg[r], disk), 1))

\* rank r calls the feeder
Forward(r) ==
    /\ run[r].pc = "forward"
    /\ \E out \in {"loss", "nothing", "oom", "error"}, writes \in Writes :
          Becomes(r, FeederCall(Here(r), out, writes, r))

\* every rank has entered all_reduce(n_ooms): each receives the sum
AllReduce ==
    LET total == LET sum[k \in 0..cfg.world_size] ==
                         IF k = 0 THEN 0 ELSE sum[k - 1] + run[k - 1].n_ooms
                 IN  sum[cfg.world_size]
    IN  /\ cfg.world_size > 1
        /\ \A r \in Ranks : run[r].pc \in {"fwd_reduce", "bwd_reduce"}
        /\ run' = [r \in Ranks |->
                      [run[r] EXCEPT !.n_ooms = total,
                                     !.pc = IF @ = "fwd_reduce" THEN "fwd_after"
                                            ELSE "bwd_after"]]
        /\ UNCHANGED <<cfg, weights, tts, model, proc, loop, engineVars, ckptVars, engines, agg, disk>>

\* rank r is past the forward pass's all-reduce
ForwardAfter(r) ==
    /\ run[r].pc = "fwd_after"
    /\ \E writes \in Writes : Becomes(r, ForwardChecked(Here(r), writes, r))

\* rank r calls engine.backward(loss)
Backward(r) ==
    /\ run[r].pc = "backward"
    /\ \E out \in {"ok", "oom", "error"}, writes \in Writes :
          Becomes(r, BackwardCall(Here(r), out, writes, r))

\* rank r is past the backward pass's all-reduce
BackwardAfter(r) ==
    /\ run[r].pc = "bwd_after"
    /\ \E writes \in Writes : Becomes(r, BackwardChecked(Here(r), writes, r))

RankNext(r) ==
    /\ r \in Ranks
    /\ \/ BeginStep(r)
       \/ Forward(r)
       \/ ForwardAfter(r)
       \/ Backward(r)
       \/ BackwardAfter(r)

vars == <<cfg, engine, exc, calls, base, dir, lastOp, saved, engines, agg, run, disk, loop,
         model, proc, weights, tts>>

Init == InitEngine

Next == Step

Spec == Init /\ [][Next]_vars

NextCkpt == Construct \/ SaveCheckpoint \/ LoadCheckpoint \/ SaveAndPrune

CkptSpec == InitCkpt /\ [][NextCkpt]_vars

NextStep ==
    \/ \E r \in Ranks : BeginStep(r)
    \/ \E r \in Ranks : Forward(r)
    \/ \E r \in Ranks : ForwardAfter(r)
    \/ \E r \in Ranks : Backward(r)
    \/ \E r \in Ranks : BackwardAfter(r)

StepSpec == InitStep /\ [][NextStep]_vars

NextRanks == NextStep \/ AllReduce

\* every rank is a process of its own and keeps running; the all-reduce
\* completes once every rank has entered it
FairRanksSpec ==
    /\ InitRanks
    /\ [][NextRanks]_vars
    /\ \A r \in 0..(MaxWorld - 1) : WF_vars(RankNext(r))
    /\ WF_vars(AllReduce)

\* --------------------------- RetainSpec: Engines.save_checkpoint, repeatedly
\* the tags saved so far, in order, and whether every save was the leader's
NoSaves == [op |-> "save_all", tags |-> <<>>, leader |-> TRUE]

InitRetain ==
    /\ \E keep \in 0..MaxRetain, training \in [Names -> BOOLEAN] :
          cfg = StepConfig(1, keep, FALSE, MaxWorld, training)
    /\ engines = [r \in Ranks |-> [n \in Names |-> LoadedEngine(n)]]
    /\ agg = [r \in Ranks |-> NoAggregate]
    /\ run = [r \in Ranks |-> IdleRun]
    /\ disk = [n \in Names |-> EmptyDir]
    /\ model = NoModel
    /\ proc = NoProcess
    /\ weights = NoWeights
    /\ tts = NoTTS
    /\ loop = NoLoop
    /\ engine = FreshEngine
    /\ exc = "none"
    /\ calls = 0
    /\ base = engine
    /\ dir = EmptyDir
    /\ lastOp = NoSaves
    /\ saved = NoSnapshot

\* engines.save_checkpoint(tag) on rank r
SaveAll ==
    \E r \in Ranks, tag \in 0..MaxSaveTag, writes \in Writes :
        /\ Len(lastOp.tags) < MaxSaves
        /\ disk' = EnginesSaveCheckpointTag(disk, tag, engines[r], writes, r)
        /\ lastOp' = [lastOp EXCEPT !.tags = Append(@, tag),
                                    !.leader = @ /\ is_global_leader(r)]
        /\ UNCHANGED <<cfg, weights, tts, model, proc, loop, engineVars, dir, saved, engines, agg, run>>

RetainSpec == InitRetain /\ [][SaveAll]_vars

\* ----------------- AggSpec: one Engines collection stepped, saved and loaded
InitAgg ==
    /\ \E gas \in 1..2, nar \in BOOLEAN :
          cfg = StepConfig(gas, 0, FALSE, 1, [n \in Names |-> n = "ar" \/ nar])
    /\ InitCollection

\* what the feeder and engine.backward do for each trainable engine in one
\* call of Engines.step (no engine that is not trainable is handed to them)
Feeds ==
    {f \in [Names -> {"loss", "nothing", "error"}] :
        \A n \in Names : ~Training(n) => f[n] = "loss"}
Backs ==
    {b \in [Names -> {"ok", "error"}] :
        \A n \in Names : ~Training(n) => b[n] = "ok"}

\* engines.step(batch, feeder)
StepAll ==
    /\ run[0].pc \in {"idle", "returned"}
    /\ \A n \in Names : engines[0][n].micro_steps < MaxAggSteps
    /\ \A n \in Names : engines[0][n].optimizer < MaxAggSteps
    /\ \E feed \in Feeds, back \in Backs :
          LET rs == EnginesStep(engines[0], agg[0], disk, 1, feed, back,
                                [n \in Names |-> "ok"], 0)
          IN  /\ run' = [run EXCEPT ![0] = rs.st]
              /\ engines' = [engines EXCEPT ![0] = rs.engs]
              /\ agg' = [agg EXCEPT ![0] = rs.a]
              /\ disk' = rs.dk
    /\ lastOp' = [op |-> "step"]
    /\ UNCHANGED <<cfg, weights, tts, model, proc, loop, engineVars, dir, saved>>

\* engines.save_checkpoint(), under the tag of the aggregate global step
SaveStep ==
    /\ run[0].pc \in {"idle", "returned"}
    /\ disk' = EnginesSaveCheckpoint(disk, engines[0], agg[0], [n \in Names |-> "ok"], 0)
    /\ lastOp' = [op |-> "save_all"]
    /\ UNCHANGED <<cfg, weights, tts, model, proc, loop, engineVars, dir, saved, engines, agg, run>>

\* engines.load_checkpoint(tag)
LoadAll ==
    /\ run[0].pc \in {"idle", "returned"}
    /\ \E tag \in {None} \cup (0..MaxAggSteps), restart \in BOOLEAN :
          LET r == EnginesLoadCheckpoint(engines[0], agg[0], disk, tag, FALSE, restart, TRUE)
          IN  /\ engines' = [engines EXCEPT ![0] = r.engs]
              /\ agg' = [agg EXCEPT ![0] = r.a]
              /\ lastOp' = [op |-> "load_all", exc |-> r.exc, restart |-> restart]
    /\ UNCHANGED <<cfg, weights, tts, model, proc, loop, engineVars, dir, saved, run, disk>>

NextAgg == StepAll \/ SaveStep \/ LoadAll

AggSpec == InitAgg /\ [][NextAgg]_vars

\* ------------------------------------------- TrainSpec: train() on each rank
LoopConfig(gas, world, iterations, save_frequency, evaluation_frequency, save_on_quit, export_on_quit, export_on_save) ==
    StepConfig(gas, 0, FALSE, world, [n \in Names |-> TRUE]) @@
    [ iterations           |-> iterations,
      save_frequency       |-> save_frequency,
      evaluation_frequency |-> evaluation_frequency,
      save_on_quit         |-> save_on_quit,
      export_on_quit       |-> export_on_quit,
      export_on_save       |-> export_on_save ]

\* the state load_engines leaves, and train() entered on every rank
InitLoaded ==
    /\ engines = [r \in Ranks |-> [n \in Names |-> LoadedEngine(n)]]
    /\ agg = [r \in Ranks |-> NoAggregate]
    /\ run = [r \in Ranks |-> IdleRun]
    /\ disk = [n \in Names |-> EmptyDir]
    /\ engine = FreshEngine
    /\ exc = "none"
    /\ calls = 0
    /\ base = engine
    /\ dir = EmptyDir
    /\ lastOp = IdleOp
    /\ saved = NoSnapshot

InitTrain ==
    /\ \E gas \in 1..2, iterations \in 0..MaxIter :
          cfg = LoopConfig(gas, MaxWorld, iterations, 0, 1, FALSE, FALSE, FALSE)
    /\ InitLoaded
    /\ model = NoModel
    /\ proc = NoProcess
    /\ weights = NoWeights
    /\ tts = NoTTS
    /\ loop = [sent |-> <<>>, at |-> [r \in Ranks |-> NewLoop]]

\* the lines typed on the console
Typed ==
    { NoLine, <<"save">>, <<"eval">>, <<"quit">>, <<"export">>,
      <<"lr", "1">>, <<"lr", "x">>, <<"event", "clear">>,
      <<"save", "@", "1">>, <<"event", "save", "@", "1">>,
      <<"eval", "@", "1">>, <<"export", "@", "1">>,
      <<"save", "@", "x">>, <<"save", "@", "1", "@", "2">> }

\* rank r takes the pre-loop command
PreLoop(r) ==
    /\ loop.at[r].pc = "poll0"
    /\ Receives(r, loop.sent, loop.at[r].polls)
    /\ \E typed \in Typed \cup {<<"eval_quit">>} :
          \E ts \in {Begin(Train(loop.at[r], engines[r], agg[r], disk),
                            non_blocking_input(r, typed, loop.sent, loop.at[r].polls),
                            r)} :
             loop' = [sent |-> Broadcast(r, typed, loop.sent),
                      at   |-> [loop.at EXCEPT ![r] = ts.lp]]
    /\ UNCHANGED <<cfg, weights, tts, model, proc, engineVars, dir, lastOp, saved, engines, agg, run, disk>>

\* rank r runs the loop body from its top to the poll of the console
Iterate(r) ==
    /\ loop.at[r].pc = "top"
    /\ \E feed \in Feeds, back \in Backs :
          \E ts \in {Resume(Train(loop.at[r], engines[r], agg[r], disk),
                             feed, back, r, {})} :
              /\ loop' = [loop EXCEPT !.at[r] = ts.lp]
              /\ engines' = [engines EXCEPT ![r] = ts.engs]
              /\ agg' = [agg EXCEPT ![r] = ts.a]
              /\ disk' = ts.dk
    /\ UNCHANGED <<cfg, weights, tts, model, proc, engineVars, dir, lastOp, saved, run>>

NextTrain ==
    \/ \E r \in Ranks : PreLoop(r)
    \/ \E r \in Ranks : Iterate(r)

TrainSpec == InitTrain /\ [][NextTrain]_vars

\* ------------------ ConsoleSpec: the commands of the loop body, one process
\* Lines 260-343 taken on their own: every pass's engines.step returns, and
\* its statistics are handed on with the entry "global_step" that line 243
\* reads.
InitConsole ==
    /\ \E gas \in 1..2, save_frequency \in 0..MaxFreq,
          evaluation_frequency \in 1..MaxFreq,
          save_on_quit \in BOOLEAN, export_on_quit \in BOOLEAN,
          export_on_save \in BOOLEAN :
          cfg = LoopConfig(gas, 1, MaxIter, save_frequency, evaluation_frequency,
                           save_on_quit, export_on_quit, export_on_save)
    /\ InitLoaded
    /\ model = NoModel
    /\ proc = NoProcess
    /\ weights = NoWeights
    /\ tts = NoTTS
    /\ loop = [sent |-> <<>>,
               at   |-> [r \in Ranks |->
                            Begin(Train(NewLoop, engines[r], agg[r], disk),
                                  NoLine, r).lp]]

\* lines 236-258 of a pass
NextPass ==
    /\ loop.at[0].pc = "top"
    /\ loop.at[0].passes < MaxLoops
    /\ \E ts \in {Resume(Train(loop.at[0], engines[0], agg[0], disk),
                          [n \in Names |-> "loss"], [n \in Names |-> "ok"],
                          0, {"global_step"})} :
           /\ loop' = [loop EXCEPT !.at[0] = ts.lp]
           /\ engines' = [engines EXCEPT ![0] = ts.engs]
           /\ agg' = [agg EXCEPT ![0] = ts.a]
           /\ disk' = ts.dk
    /\ UNCHANGED <<cfg, weights, tts, model, proc, engineVars, dir, lastOp, saved, run>>

\* lines 260-343 of a pass
Console ==
    /\ loop.at[0].pc = "poll"
    /\ \E typed \in Typed :
          /\ Contains(typed, "@") => Len(loop.at[0].events) < MaxEvents
          /\ \E ts \in {Command(Train(loop.at[0], engines[0], agg[0], disk),
                                   non_blocking_input(0, typed, loop.sent,
                                                      loop.at[0].polls),
                                   0)} :
                 /\ loop' = [sent |-> Broadcast(0, typed, loop.sent),
                             at   |-> [loop.at EXCEPT ![0] = ts.lp]]
                 /\ disk' = ts.dk
    /\ UNCHANGED <<cfg, weights, tts, model, proc, engineVars, dir, lastOp, saved, engines, agg, run>>

NextConsole == NextPass \/ Console

ConsoleSpec == InitConsole /\ [][NextConsole]_vars

\* ----------------------------- FreezeSpec: Engine.freeze and Engine.unfreeze
\* The engine is seen through the requires_grad flag of each parameter of its
\* module, the tracked set _frozen_params (`frozen`) and its _cfg (`config`):
\*   unset   no _cfg was passed to __init__: the attribute does not exist
\*   none    _cfg is None
\*   plain   a configuration without the attribute frozen_params
\*   bound   a configuration whose frozen_params names `frozen_params`
Params == 1..MaxParams

ModelConfigs ==
    {[kind |-> k, frozen_params |-> {}] : k \in {"unset", "none", "plain"}} \cup
    {[kind |-> "bound", frozen_params |-> f] : f \in SUBSET Params}

\* lines 69-77
EngineFreeze(e, freeze_all) ==
    IF e.config.kind = "unset" THEN [engine |-> e, exc |-> "AttributeError"]
    ELSE IF e.config.kind \in {"none", "plain"} THEN [engine |-> e, exc |-> "Exception"]
    ELSE LET hit == {p \in Params :
                        \/ freeze_all /\ e.requires_grad[p]
                        \/ ~freeze_all /\ p \in e.config.frozen_params}
         IN  [ engine |-> [e EXCEPT !.requires_grad = [p \in Params |-> @[p] /\ p \notin hit],
                                    !.frozen = @ \cup hit],
               exc    |-> "none" ]

\* lines 79-82
EngineUnfreeze(e) ==
    [e EXCEPT !.requires_grad = [p \in Params |-> @[p] \/ p \in e.frozen],
              !.frozen = {}]

\* `base` is the engine before the first freeze() since the last unfreeze(),
\* `calls` the freeze() calls made since
InitFreeze ==
    /\ cfg = Config(1, 1, 0)
    /\ \E grads \in [Params -> BOOLEAN], config \in ModelConfigs :
          engine = [requires_grad |-> grads, frozen |-> {}, config |-> config]
    /\ base = engine
    /\ exc = "none"
    /\ calls = 0
    /\ lastOp = IdleOp
    /\ dir = EmptyDir
    /\ saved = NoSnapshot
    /\ engines = [r \in Ranks |-> [n \in Names |-> LoadedEngine(n)]]
    /\ agg = [r \in Ranks |-> NoAggregate]
    /\ run = [r \in Ranks |-> IdleRun]
    /\ disk = [n \in Names |-> EmptyDir]
    /\ model = NoModel
    /\ proc = NoProcess
    /\ weights = NoWeights
    /\ tts = NoTTS
    /\ loop = NoLoop

\* engine.freeze(freeze_all)
Freeze ==
    /\ calls < MaxFreezes \/ lastOp.op = "unfreeze"
    /\ \E freeze_all \in BOOLEAN :
          LET r == EngineFreeze(engine, freeze_all)
              first == lastOp.op = "unfreeze"
          IN  /\ engine' = r.engine
              /\ exc' = r.exc
              /\ base' = IF first THEN engine ELSE base
              /\ calls' = IF first THEN 1 ELSE calls + 1
              /\ lastOp' = [op |-> "freeze", freeze_all |-> freeze_all]
    /\ UNCHANGED <<cfg, weights, tts, model, proc, loop, dir, saved, stepVars>>

\* engine.unfreeze()
Unfreeze ==
    /\ engine' = EngineUnfreeze(engine)
    /\ exc' = "none"
    /\ lastOp' = [op |-> "unfreeze"]
    /\ UNCHANGED <<cfg, weights, tts, model, proc, loop, base, calls, dir, saved, stepVars>>

NextFreeze == Freeze \/ Unfreeze

FreezeSpec == InitFreeze /\ [][NextFreeze]_vars

\* ------------------------------------------------- SampleSpec: Base.sample
\* A call of Base.sample is seen through the functions it applies to the
\* logits, in order.  Temperatures are whole numbers and top_p is in tenths.

\* A slip of lines 441-455: beam search is tested before mirostat.
TerminalBeamFirst(mirostat, beam_width) ==
    IF beam_width > 1 THEN <<"top_k_logits_list">>
    ELSE IF mirostat # None THEN <<"mirostat_sample">>
    ELSE <<"Categorical">>

\* lines 441-458: the sampler that produces the result of the call
Terminal(mirostat, beam_width) ==
    IF mirostat # None THEN <<"mirostat_sample">>
    ELSE IF beam_width > 1 THEN <<"top_k_logits_list">>
    ELSE <<"Categorical">>

\* lines 408-458.  In the chunkwise branch line 415 zips the logits with
\* self.recurrent_chunk_size, an int: the call raises TypeError there.
BaseSample(c) ==
    LET min_temperature == IF c.min_temperature < 0 THEN c.temperature
                           ELSE c.min_temperature
        sliced == IF c.quant_levels # None THEN <<"whole response">>
                  ELSE IF c.causal /\ c.recurrent_chunk_size > 0 THEN <<"last chunk">>
                  ELSE <<"last code">>
        penalized == IF c.quant_levels = None /\ c.causal
                     THEN <<"reptition_penalize", "length_penalize">>
                     ELSE <<"reptition_penalize">>
        filtered == IF c.top_k > 0 \/ c.top_p < 10 THEN <<"top_k_top_p_filtering">>
                    ELSE <<>>
        tempered == IF c.temperature # min_temperature THEN <<"dynamic_temperature">>
                    ELSE <<"divide">>
    IN  IF sliced = <<"last chunk">>
        THEN [applied |-> <<>>, exc |-> "TypeError"]
        ELSE [applied |-> sliced \o penalized \o filtered \o tempered
                              \o Terminal(c.mirostat, c.beam_width),
              exc     |-> "none"]

SampleCalls ==
    [ quant_levels : {None, 0}, causal : BOOLEAN, recurrent_chunk_size : {0, 1},
      top_k : {-100, 1}, top_p : {5, 10},
      temperature : {1}, min_temperature : {-1, 0, 1},
      mirostat : {None, 0}, beam_width : 0..MaxBeam ]

InitSample ==
    /\ cfg = Config(1, 1, 0)
    /\ \E c \in SampleCalls : model = [op |-> "none", call |-> c, applied |-> <<>>, exc |-> "none"]
    /\ proc = NoProcess
    /\ weights = NoWeights
    /\ tts = NoTTS
    /\ loop = NoLoop
    /\ engine = FreshEngine
    /\ base = engine
    /\ exc = "none"
    /\ calls = 0
    /\ lastOp = IdleOp
    /\ dir = EmptyDir
    /\ saved = NoSnapshot
    /\ engines = [r \in Ranks |-> [n \in Names |-> LoadedEngine(n)]]
    /\ agg = [r \in Ranks |-> NoAggregate]
    /\ run = [r \in Ranks |-> IdleRun]
    /\ disk = [n \in Names |-> EmptyDir]

\* model.sample(logits, resps_list, ...)
Sample ==
    /\ model.op = "none"
    /\ model' = [model EXCEPT !.op = "sample",
                               !.applied = BaseSample(model.call).applied,
                               !.exc = BaseSample(model.call).exc]
    /\ UNCHANGED <<cfg, weights, tts, proc, loop, engineVars, ckptVars, stepVars>>

SampleSpec == InitSample /\ [][Sample]_vars

\* ----------------------------- CacheSpec: Base.forward with a recurrent state
\* The model is seen through its arch_type, whether the caller passes a
\* `state` dictionary (passed), the positions fed into that incremental state
\* so far, in order (state; empty means len(state) == 0), and the length of
\* the merged input sequence x (len).  Positions are numbered from 1.
Positions(first, last) == [i \in 1..(last - first + 1) |-> first + i - 1]

\* lines 324-345: the positions one call feeds into the incremental state
Fed(m) ==
    IF ~(m.passed /\ m.arch_type = "retnet") THEN <<>>
    ELSE (IF Len(m.state) = 0 THEN Positions(1, m.len) ELSE <<>>) \o <<m.len>>

InitCache ==
    /\ cfg = Config(1, 1, 0)
    /\ \E arch_type \in {"retnet", "transformer"}, passed \in BOOLEAN,
          prompt \in 1..MaxPrompt :
          model = [op |-> "none", arch_type |-> arch_type, passed |-> passed,
                   state |-> <<>>, prompt |-> prompt, len |-> prompt]
    /\ proc = NoProcess
    /\ weights = NoWeights
    /\ tts = NoTTS
    /\ loop = NoLoop
    /\ engine = FreshEngine
    /\ base = engine
    /\ exc = "none"
    /\ calls = 0
    /\ lastOp = IdleOp
    /\ dir = EmptyDir
    /\ saved = NoSnapshot
    /\ engines = [r \in Ranks |-> [n \in Names |-> LoadedEngine(n)]]
    /\ agg = [r \in Ranks |-> NoAggregate]
    /\ run = [r \in Ranks |-> IdleRun]
    /\ disk = [n \in Names |-> EmptyDir]

\* model.forward(text_list, proms_list, resps_list, state=state)
CachedForward ==
    /\ model.op \in {"none", "append"}
    /\ model' = [model EXCEPT !.op = "forward", !.state = @ \o Fed(model)]
    /\ UNCHANGED <<cfg, weights, tts, proc, loop, engineVars, ckptVars, stepVars>>

\* the caller appends the sampled code to the response: x is one longer
AppendCode ==
    /\ model.op = "forward"
    /\ model.len < model.prompt + MaxNew
    /\ model' = [model EXCEPT !.op = "append", !.len = @ + 1]
    /\ UNCHANGED <<cfg, weights, tts, proc, loop, engineVars, ckptVars, stepVars>>

NextCache == CachedForward \/ AppendCode

CacheSpec == InitCache /\ [][NextCache]_vars

\* ------------------------- ProcSpec: one process and utils/distributed.py
\* The process is seen through its environment (a variable that is not set
\* reads "unset", one set by the launcher "given"), the module global
\* _distributed_initialized, the cache of fix_unset_envs (`cached`: it has
\* been called), and the number of times the initializer ran (inits).
EnvKeys == <<"RANK", "WORLD_SIZE", "MASTER_ADDR", "MASTER_PORT", "LOCAL_RANK">>
EnvNames == {EnvKeys[i] : i \in 1..Len(EnvKeys)}

\* lines 27-33; the free port is "port"
Defaults ==
    [k \in EnvNames |->
        CASE k = "RANK" -> "0"
          [] k = "WORLD_SIZE" -> "1"
          [] k = "MASTER_ADDR" -> "localhost"
          [] k = "MASTER_PORT" -> "port"
          [] k = "LOCAL_RANK" -> "0"]

\* lines 25-41: behind @cache the body runs on the first call only; it
\* returns at the first variable that is set, and otherwise sets all five
FixUnsetEnvs(p) ==
    IF p.cached THEN p
    ELSE IF \E k \in EnvNames : p.env[k] # "unset" THEN [p EXCEPT !.cached = TRUE]
    ELSE [p EXCEPT !.cached = TRUE, !.env = Defaults]

\* lines 18-20: fn runs; `_distributed_initialized = True` binds a local
\* name of the function, the module's global is not written
InitDistributed(p) == [p EXCEPT !.inits = @ + 1]

\* lines 22-23
DistributedInitialized(p) == p.initialized

InitProc ==
    /\ cfg = Config(1, 1, 0)
    /\ \E env \in [EnvNames -> {"unset", "given"}] :
          proc = [op |-> "none", env |-> env, before |-> env, cached |-> FALSE,
                  initialized |-> FALSE, inits |-> 0]
    /\ model = NoModel
    /\ weights = NoWeights
    /\ tts = NoTTS
    /\ loop = NoLoop
    /\ engine = FreshEngine
    /\ base = engine
    /\ exc = "none"
    /\ calls = 0
    /\ lastOp = IdleOp
    /\ dir = EmptyDir
    /\ saved = NoSnapshot
    /\ engines = [r \in Ranks |-> [n \in Names |-> LoadedEngine(n)]]
    /\ agg = [r \in Ranks |-> NoAggregate]
    /\ run = [r \in Ranks |-> IdleRun]
    /\ disk = [n \in Names |-> EmptyDir]

\* fix_unset_envs()
FixEnvs ==
    /\ proc' = [FixUnsetEnvs(proc) EXCEPT !.op = "fix_unset_envs"]
    /\ UNCHANGED <<cfg, weights, tts, model, loop, engineVars, ckptVars, stepVars>>

\* `if not distributed_initialized(): init_distributed(fn)`
GuardedInit ==
    /\ proc.inits < MaxCount
    /\ proc' = [(IF ~DistributedInitialized(proc) THEN InitDistributed(proc) ELSE proc)
                   EXCEPT !.op = "init"]
    /\ UNCHANGED <<cfg, weights, tts, model, loop, engineVars, ckptVars, stepVars>>

NextProc == FixEnvs \/ GuardedInit

ProcSpec == InitProc /\ [][NextProc]_vars

\* ------- ExportSpec: Engines.export, inference.TTS.__init__ and load_engines
\* A symbol map is a number; get_phone_symmap() in the process that loads is
\* DefaultSymmap.  A file fp32.pth is the dictionary torch.save wrote, seen
\* through its top-level keys.
Symmaps == 0..MaxSymmap
DefaultSymmap == 0

\* the default `userdata={}` of Engines.export
NoUserdata == [k \in {} |-> 0]

\* cfg.ckpt_dir / name / "fp32.pth" does not exist
NoFile == [written |-> FALSE, state |-> NoUserdata]

\* Engines.export(userdata): one file per engine, with the module's state,
\* the four counters and the caller's userdata under the key "userdata"
EnginesExport(engs, userdata) ==
    [n \in Names |->
        [ written |-> TRUE,
          state   |-> [ module   |-> engs[n].module,
                        stats    |-> [ global_step      |-> global_step(engs[n]),
                                       micro_step       |-> micro_step(engs[n]),
                                       global_samples   |-> engs[n].global_samples,
                                       tokens_processed |-> engs[n].tokens_processed ],
                        userdata |-> userdata ] ]]

\* `kwargs.pop(key, default)` and `kwargs[key] if key in kwargs else default`
Pop(kwargs, key, default) == IF key \in DOMAIN kwargs THEN kwargs[key] ELSE default

\* Engine.__init__(**kwargs): the counters are read from the keywords
\* global_steps, micro_steps, global_samples and tokens_processed; any other
\* keyword is left alone
EngineInit(kwargs) ==
    NewEngine(Pop(kwargs, "global_steps", 0), Pop(kwargs, "micro_steps", 0),
              Pop(kwargs, "global_samples", 0), Pop(kwargs, "tokens_processed", 0),
              kwargs.model, Pop(kwargs, "optimizer", None), Pop(kwargs, "lr_scheduler", None))

\* load_engines, lines 45-106, for the model named n: with load_state_dict, or
\* for a model that is not trained, the weights and the stats block are read
\* from fp32.pth, and the engine is constructed with `stats=stats`
LoadEngine(files, n) ==
    LET optimizer == IF cfg.training[n] THEN 0 ELSE None
        reads     == cfg.load_state_dict \/ ~cfg.training[n]
        state     == files[n].state
        stats     == IF reads /\ "stats" \in DOMAIN state THEN state.stats ELSE None
        module    == IF ~reads THEN 0
                     ELSE IF "module" \in DOMAIN state THEN state.module ELSE state
    IN  IF reads /\ ~files[n].written
        THEN [engine |-> FreshEngine, exc |-> "FileNotFoundError"]
        ELSE [engine |-> EngineInit([model |-> module, optimizer |-> optimizer,
                                     lr_scheduler |-> None, stats |-> stats]),
              exc |-> "none"]

\* load_engines: the engines are built in the order of the models, made a
\* collection (Engines.setup), and without load_state_dict the checkpoints of
\* cfg.ckpt_dir are loaded.  The freeze of lines 115-116 changes no counter.
LoadEngines(files, dk) ==
    LET built  == [n \in Names |-> LoadEngine(files, n)]
        failed == {i \in 1..Len(EngineNames) : built[EngineNames[i]].exc # "none"}
        engs   == [n \in Names |-> built[n].engine]
    IN  IF failed # {}
        THEN [engs |-> engs, a |-> NoAggregate,
              exc |-> built[EngineNames[CHOOSE i \in failed : \A j \in failed : i <= j]].exc]
        ELSE IF cfg.load_state_dict THEN [engs |-> engs, a |-> NoAggregate, exc |-> "none"]
        ELSE EnginesLoadCheckpoint(engs, NoAggregate, dk, None, FALSE, FALSE, TRUE)

\* TTS.__init__, lines 44-67, for one model: the file is loaded, its symbol
\* map taken if "symmap" is one of its keys, and its "module" entry loaded
\* into the model
TTSLoad(t, n, file) ==
    IF t.exc # "none" THEN t
    ELSE IF ~file.written THEN [t EXCEPT !.exc = "FileNotFoundError"]
    ELSE [t EXCEPT !.symmap = IF "symmap" \in DOMAIN file.state
                              THEN file.state.symmap ELSE @,
                   !.module[n] = IF "module" \in DOMAIN file.state
                                 THEN file.state.module ELSE file.state]

\* TTS.__init__(ar_ckpt, nar_ckpt) with the exported files of "ar" and "nar":
\* lines 38-72.  fallback records that get_phone_symmap() was used.
TTSInit(files) ==
    LET start  == [symmap |-> None, module |-> [n \in Names |-> None],
                   exc |-> "none", fallback |-> FALSE]
        loaded == TTSLoad(TTSLoad(start, "ar", files["ar"]), "nar", files["nar"])
    IN  IF loaded.exc # "none" THEN loaded
        ELSE IF loaded.symmap = None
        THEN [loaded EXCEPT !.symmap = DefaultSymmap, !.fallback = TRUE]
        ELSE loaded

InitExport ==
    /\ \E load_state_dict \in BOOLEAN, training \in [Names -> BOOLEAN] :
          cfg = StepConfig(1, 0, FALSE, 1, training) @@
                [load_state_dict |-> load_state_dict]
    /\ engines = [r \in Ranks |-> [n \in Names |-> LoadedEngine(n)]]
    /\ agg = [r \in Ranks |-> NoAggregate]
    /\ run = [r \in Ranks |-> IdleRun]
    /\ disk = [n \in Names |-> EmptyDir]
    /\ weights = [n \in Names |-> NoFile]
    /\ tts = NoTTS
    /\ model = NoModel
    /\ proc = NoProcess
    /\ loop = NoLoop
    /\ engine = FreshEngine
    /\ exc = "none"
    /\ calls = 0
    /\ base = engine
    /\ dir = EmptyDir
    /\ lastOp = IdleOp
    /\ saved = NoSnapshot

\* engines.step(batch, feeder) of the training process
TrainStep ==
    /\ \A n \in Names : engines[0][n].micro_steps < MaxSteps
    /\ \A n \in Names : engines[0][n].module < MaxSteps
    /\ \E rs \in {EnginesStep(engines[0], agg[0], disk, 1, [n \in Names |-> "loss"],
                              [n \in Names |-> "ok"], [n \in Names |-> "ok"], 0)} :
          /\ run' = [run EXCEPT ![0] = rs.st]
          /\ engines' = [engines EXCEPT ![0] = rs.engs]
          /\ agg' = [agg EXCEPT ![0] = rs.a]
          /\ disk' = rs.dk
    /\ lastOp' = [op |-> "step"]
    /\ UNCHANGED <<cfg, weights, tts, model, proc, loop, engineVars, dir, saved>>

\* engines.export(), or engines.export(userdata={"symmap": symmap}) as
\* train() calls it (lines 308 and 331)
ExportAll ==
    /\ \E carries \in BOOLEAN, symmap \in Symmaps :
          weights' = EnginesExport(engines[0], IF carries THEN [symmap |-> symmap]
                                               ELSE NoUserdata)
    /\ lastOp' = [op |-> "export"]
    /\ UNCHANGED <<cfg, tts, model, proc, loop, engineVars, dir, saved, stepVars>>

\* TTS(ar_ckpt=..., nar_ckpt=...) in an inference process
Inference ==
    /\ tts' = TTSInit(weights)
    /\ lastOp' = [op |-> "tts"]
    /\ UNCHANGED <<cfg, weights, model, proc, loop, engineVars, dir, saved, stepVars>>

\* load_engines() in a new process
Reload ==
    /\ \E r \in {LoadEngines(weights, disk)} :
          /\ engines' = [engines EXCEPT ![0] = r.engs]
          /\ agg' = [agg EXCEPT ![0] = r.a]
          /\ lastOp' = [op |-> "load_engines", exc |-> r.exc]
    /\ run' = [run EXCEPT ![0] = IdleRun]
    /\ UNCHANGED <<cfg, weights, tts, model, proc, loop, engineVars, dir, saved, disk>>

NextExport == TrainStep \/ ExportAll \/ Inference \/ Reload

ExportSpec == InitExport /\ [][NextExport]_vars

\* ================================================================ claims
\* the engine started with every counter at zero
Fresh ==
    /\ base.global_steps = 0
    /\ base.micro_steps = 0
    /\ base.global_samples = 0

\* C1: whatever the engine's counters were, after N calls of Engine.step (and
\* after every further N) global_steps has grown by one per N calls and
\* global_samples by batch_size per call, N = gradient_accumulation_steps.
StepWindowExact ==
    (calls > 0 /\ calls % cfg.gradient_accumulation_steps = 0) =>
        /\ engine.global_steps
             = base.global_steps + calls \div cfg.gradient_accumulation_steps
        /\ engine.global_samples = base.global_samples + calls * cfg.batch_size

StepWindowReached ==
    /\ cfg.gradient_accumulation_steps > 1
    /\ calls = cfg.gradient_accumulation_steps
    /\ base.micro_steps > 0
    /\ engine.global_steps = base.global_steps + 1
    /\ engine.global_samples = base.global_samples + calls * cfg.batch_size

\* C2: from a fresh engine the optimizer updates fall on the calls N, 2N, ...:
\* after every call global_steps = micro_steps div N.
FreshStepsAreFloor ==
    (Fresh /\ base.optimizer # None) => engine.global_steps
               = engine.micro_steps \div cfg.gradient_accumulation_steps

\* C9: a load_checkpoint(dir) that follows a successful save_checkpoint(dir,
\* tag) leaves the four counters and the module as the saving engine had
\* them, whatever engine loads and whether or not either has an optimizer.
SaveLoadRoundTrip ==
    (lastOp.op = "load" /\ lastOp.tag = None /\ saved.valid) =>
        /\ engine.global_steps = saved.engine.global_steps
        /\ engine.micro_steps = saved.engine.micro_steps
        /\ engine.global_samples = saved.engine.global_samples
        /\ engine.tokens_processed = saved.engine.tokens_processed
        /\ engine.module = saved.engine.module

SaveLoadRoundTripReached ==
    /\ lastOp.op = "load" /\ lastOp.tag = None /\ saved.valid
    /\ saved.engine.optimizer = None
    /\ engine.optimizer # None
    /\ saved.engine.global_steps > 0
    /\ engine.micro_steps = saved.engine.micro_steps

\* the state file a load with this tag would read is not there
NothingToLoad(d, tag) ==
    LET t == IF tag = None THEN d.latest ELSE tag
    IN  t = None \/ t \notin Tags(d) \/ d.file[t].kind = "missing"

\* C10: load_checkpoint raises nothing and changes neither the counters nor
\* the module when no tag is given and "latest" does not exist, and when the
\* tag, given or read from "latest", has no state file.
LoadWithoutStateIsNoop ==
    [][(lastOp'.op = "load" /\ NothingToLoad(dir, lastOp'.tag))
          => (engine' = engine /\ exc' = "none")]_vars

LoadWithoutStateReached ==
    /\ lastOp.op = "load" /\ lastOp.tag = None
    /\ dir.latest # None /\ dir.latest \notin Tags(dir)
    /\ engine.global_steps > 0
    /\ exc = "none"

\* C3: with OOM checking, a feeder that fails with memory exhaustion on every
\* attempt is called for an engine no more often than the retry budget allows
\* (the loop's `tries`, counted from 4 down to 0).
FeederRetriesBounded ==
    \A r \in Ranks, n \in Names :
        cfg.check_for_oom => run[r].ooms[n] <= Tries + 1

\* C4: with OOM checking, when the feeder fails with memory exhaustion on its
\* first attempt for an engine and returns a loss on the second, the forward
\* pass raises nothing; once engine.backward has succeeded the engine has been
\* stepped exactly once after exactly one backward call and its statistics are
\* recorded, and a step that returns has done all of that.
OomThenSuccessSteps ==
    \A r \in Ranks, n \in Names :
        (cfg.check_for_oom /\ run[r].fed[n] = 2 /\ run[r].ooms[n] = 1
            /\ run[r].out[n] = "loss") =>
            /\ ~(run[r].pc = "raised" /\ run[r].at = n /\ run[r].bwd[n] = 0)
            /\ (run[r].bout[n] = "ok" /\ run[r].pc \notin {"bwd_reduce", "bwd_after"}) =>
                  /\ run[r].bwd[n] = 1
                  /\ run[r].stepped[n] = 1
                  /\ n \in run[r].stats
                  /\ ~(run[r].pc = "raised" /\ run[r].at = n)
            /\ run[r].pc = "returned" =>
                  /\ run[r].bwd[n] = 1
                  /\ run[r].stepped[n] = 1
                  /\ n \in run[r].stats
                  /\ run[r].it # None

OomThenSuccessReached ==
    /\ cfg.check_for_oom
    /\ run[0].fed["ar"] = 2 /\ run[0].ooms["ar"] = 1 /\ run[0].out["ar"] = "loss"
    /\ run[0].pc = "returned"
    /\ run[0].stepped["ar"] = 1
    /\ engines[0]["ar"].micro_steps = 1
    /\ run[0].batch["text"] = MaxBatch - 1

OomBackward == "Out of memory during backwards pass!"

OtherFailureAlwaysSaved ==
    \A r \in Ranks :
        (run[r].pc = "raised" /\ run[r].error = "RuntimeError") => run[r].saves >= 1

\* C6 (amended): with OOM checking enabled, a RuntimeError of the feeder or of
\* engine.backward that is not memory exhaustion leaves Engines.step as the
\* error it is, after exactly one save_checkpoint call, the engine not having
\* been stepped.
CheckedFailureSavedThenRaised ==
    \A r \in Ranks, n \in Names :
        (cfg.check_for_oom /\ (run[r].out[n] = "error" \/ run[r].bout[n] = "error")) =>
            /\ run[r].pc = "raised"
            /\ run[r].error = "RuntimeError"
            /\ run[r].at = n
            /\ run[r].saves = 1
            /\ run[r].stepped[n] = 0

CheckedFailureReached ==
    /\ cfg.check_for_oom
    /\ run[0].bout["ar"] = "error"
    /\ run[0].pc = "raised" /\ run[0].error = "RuntimeError"
    /\ run[0].saves = 1
    /\ disk["ar"].latest # None

\* C7: in a run of several ranks with OOM checking, when a rank's feeder keeps
\* failing with memory exhaustion past the retry budget (and nothing else
\* fails on any rank), every rank ends the step by raising: none is left in
\* the retry loop or in the all-reduce for ever.
UnrecoverableOomFailsAllRanks ==
    \A r \in 0..(MaxWorld - 1) :
        <>[](/\ cfg.check_for_oom
             /\ run[r].pc = "forward"
             /\ run[r].ooms[EngineNames[run[r].idx]] > Tries
             /\ \A q \in 0..(MaxWorld - 1) : run[q].error = "none")
            => <>(\A q \in 0..(MaxWorld - 1) : run[q].pc = "raised")

\* C8: an engine that is not trainable is never handed to the feeder or to
\* backward, and its counters stay as they were built; with "ar" trainable and
\* "nar" not, only "ar" is fed and stepped.
FrozenEngineUntouched ==
    \A r \in Ranks, n \in Names :
        ~cfg.training[n] =>
            /\ engines[r][n] = LoadedEngine(n)
            /\ run[r].fed[n] = 0
            /\ run[r].bwd[n] = 0
            /\ run[r].stepped[n] = 0
            /\ n \notin run[r].stats

FrozenEngineReached ==
    /\ cfg.training["ar"] /\ ~cfg.training["nar"]
    /\ run[0].pc = "returned"
    /\ run[0].fed["ar"] = 1 /\ run[0].stepped["ar"] = 1
    /\ engines[0]["ar"].micro_steps = 1
    /\ engines[0]["ar"].global_samples = cfg.batch_size
    /\ engines[0]["nar"].micro_steps = 0
    /\ run[0].fed["nar"] = 0


\* the state file a load with this tag reads was written by an engine that had
\* no optimizer, and the loading engine has one
SectionMissing(d, e, tag) ==
    LET t == IF tag = None THEN d.latest ELSE tag
    IN  /\ t # None /\ t \in Tags(d)
        /\ d.file[t].kind = "state"
        /\ d.file[t].optimizer = None
        /\ e.optimizer # None

\* the step is a load_checkpoint with optimizer and scheduler states requested
LoadsStates(tag) ==
    \E accepts \in BOOLEAN :
        LET r == EngineLoadCheckpoint(dir, engine, tag, TRUE, TRUE, accepts)
        IN  engine' = r.engine /\ exc' = r.exc

LatestAfterStateWrite ==
    [][(lastOp'.op = "save") =>
          /\ (exc' # "none" => dir'.latest = dir.latest)
          /\ (exc' = "none" =>
                /\ dir'.latest \in Tags(dir')
                /\ dir'.file[dir'.latest] = StateDict(engine))]_vars

LatestKeptOnFailedWrite ==
    /\ lastOp.op = "save" /\ exc = "Exception"
    /\ dir.latest = 0 /\ dir.file[0].kind = "state"
    /\ 1 \in Tags(dir) /\ dir.file[1].kind = "partial"

\* the tags of a sequence of saves differ from each other
Distinct(seq) == \A i, j \in 1..Len(seq) : seq[i] = seq[j] => i = j

MaxOver(engs, counter(_)) ==
    CHOOSE m \in {counter(engs[n]) : n \in Names} :
        \A n \in Names : counter(engs[n]) <= m

\* C14: after every Engines.step and Engines.load_checkpoint that returns,
\* each aggregate of the collection (global_step, micro_step, global_samples)
\* is the largest value of that counter over the member engines.
AggregatesAreMaximum ==
    LET gsOf(e) == e.global_steps
        msOf(e) == e.micro_steps
        smOf(e) == e.global_samples
        returned == \/ lastOp.op = "step" /\ run[0].pc = "returned"
                    \/ lastOp.op = "load_all" /\ lastOp.exc = "none"
    IN  returned =>
            /\ agg[0].global_step = MaxOver(engines[0], gsOf)
            /\ agg[0].micro_step = MaxOver(engines[0], msOf)
            /\ agg[0].global_samples = MaxOver(engines[0], smOf)

\* C15: absent a quit command (and an error raised by engines.step itself),
\* train() leaves its loop only through the check at the top of the loop
\* body, with the aggregate global step at or past the configured iterations.
LoopEndsAtIterationCheck ==
    \A r \in Ranks :
        (loop.at[r].pc = "done" /\ loop.at[r].how \notin {"quit", "RuntimeError"}) =>
            /\ loop.at[r].how = "break"
            /\ agg[r].global_step >= cfg.iterations

SameCommandOnEveryRank ==
    /\ \A r \in Ranks :
          loop.at[r].polls >= 1 =>
              /\ Len(loop.sent) >= loop.at[r].polls
              /\ loop.at[r].g_command = loop.sent[loop.at[r].polls]
    /\ \A r1, r2 \in Ranks :
          (loop.at[r1].polls >= 1 /\ loop.at[r2].polls >= 1) =>
              (loop.at[r1].how = "quit" <=> loop.at[r2].how = "quit")

\* every rank of a run of several processes returned on the leader's quit
QuitOnEveryRank ==
    /\ cfg.world_size > 1
    /\ \A r \in Ranks :
          /\ loop.at[r].pc = "done"
          /\ loop.at[r].how = "quit"
          /\ loop.at[r].g_command = <<"quit">>

\* C21: freeze(freeze_all=True) succeeds whatever configuration the engine
\* has, leaving no parameter with gradients enabled; freeze fails only for
\* freeze_all=False without a frozen-parameter list; and with one,
\* freeze_all=False disables gradients only for the parameters it names.
FreezeAllNeedsNoConfig ==
    lastOp.op = "freeze" =>
        /\ lastOp.freeze_all =>
              /\ exc = "none"
              /\ \A p \in Params : ~engine.requires_grad[p]
        /\ exc # "none" => (~lastOp.freeze_all /\ engine.config.kind # "bound")
        /\ (~lastOp.freeze_all /\ exc = "none" /\ calls = 1) =>
              \A p \in Params :
                  p \notin engine.config.frozen_params =>
                      engine.requires_grad[p] = base.requires_grad[p]

\* C22: after any number of freeze() calls, of either policy, and one
\* unfreeze(), every parameter's requires_grad is as it was before the first
\* freeze and the tracked set is empty.
FreezeUnfreezeRoundTrip ==
    (lastOp.op = "unfreeze" /\ calls >= 1) =>
        /\ engine.requires_grad = base.requires_grad
        /\ engine.frozen = {}

\* the samplers a call applied
Samplers(applied) ==
    {applied[i] : i \in 1..Len(applied)} \cap
    {"mirostat_sample", "top_k_logits_list", "Categorical"}

\* C23: a call of Base.sample that returns a result applied exactly one
\* sampler: mirostat when a mirostat state is passed, whatever beam_width is;
\* beam search when none is passed and beam_width > 1; the categorical
\* sampler otherwise.
OneTerminalSampler ==
    (model.op = "sample" /\ model.exc = "none") =>
        Samplers(model.applied) =
            IF model.call.mirostat # None THEN {"mirostat_sample"}
            ELSE IF model.call.beam_width > 1 THEN {"top_k_logits_list"}
            ELSE {"Categorical"}

\* a call with a mirostat state and beam_width > 1 was sampled by mirostat
MirostatOverBeam ==
    /\ model.op = "sample"
    /\ model.exc = "none"
    /\ model.call.mirostat # None
    /\ model.call.beam_width > 1
    /\ Samplers(model.applied) = {"mirostat_sample"}

\* rank r's feeder has just failed for lack of memory inside the retry loop
FeederOom(r) ==
    /\ cfg.check_for_oom
    /\ \E n \in Names : run'[r].ooms[n] = run[r].ooms[n] + 1

\* C24 as stated: each memory-exhaustion failure of the feeder leaves every
\* field of the batch with exactly one element fewer.
OomShortensEveryField ==
    [][\A r \in Ranks :
          FeederOom(r) => \A f \in Fields : run'[r].batch[f] = run[r].batch[f] - 1]_vars

\* C24, amended: each memory-exhaustion failure of the feeder removes the
\* last element of every field that has one and leaves an empty field empty,
\* and the fields stay of one length.
OomShortensNonEmptyFields ==
    [][\A r \in Ranks :
          FeederOom(r) =>
              /\ \A f \in Fields :
                    run'[r].batch[f] = IF run[r].batch[f] > 0 THEN run[r].batch[f] - 1
                                       ELSE 0
              /\ \A f, g \in Fields : run'[r].batch[f] = run'[r].batch[g]]_vars

\* the feeder has failed more often than the batch had elements, and every
\* field is empty
OomOnEmptyBatch ==
    /\ cfg.check_for_oom
    /\ \E n \in Names : run[0].ooms[n] = MaxBatch + 1
    /\ \A f \in Fields : run[0].batch[f] = 0

\* C25: when a call of Engines.step has returned, an engine whose feeder
\* returned nothing was given neither backward nor step and has no
\* statistics under its name, while every trainable engine was handed to the
\* feeder; and an engine's counters change only in its own engine.step().
SkippedEngineUntouched ==
    /\ [](\A r \in Ranks :
            run[r].pc = "returned" =>
                /\ \A n \in Names :
                      (Training(n) /\ run[r].out[n] = "nothing") =>
                          /\ run[r].bwd[n] = 0
                          /\ run[r].stepped[n] = 0
                          /\ n \notin run[r].stats
                /\ \A n \in Names : Training(n) => run[r].fed[n] >= 1)
    /\ [][\A r \in Ranks : \A n \in Names :
             engines'[r][n] # engines[r][n] =>
                 run'[r].stepped[n] = run[r].stepped[n] + 1]_vars

\* the first engine was skipped and the second one stepped
SkippedThenStepped ==
    /\ run[0].pc = "returned"
    /\ \A n \in Names : Training(n)
    /\ run[0].out[EngineNames[1]] = "nothing"
    /\ run[0].stepped[EngineNames[1]] = 0
    /\ engines[0][EngineNames[1]].micro_steps = 0
    /\ run[0].stepped[EngineNames[2]] = 1
    /\ engines[0][EngineNames[2]].micro_steps = 1

\* C26: with a recurrent state, once the prefill call has returned every
\* position of the sequence so far has been fed into the incremental state
\* exactly once, in order; no position is fed twice.
EachPositionFedOnce ==
    (model.passed /\ model.arch_type = "retnet" /\ model.op = "forward") =>
        model.state = Positions(1, model.len)

\* C27: once fix_unset_envs() has run, each of the five variables that was
\* not set holds its default, each that was set is as it was, and a further
\* call changes nothing.
UnsetEnvsGetDefaults ==
    /\ [](proc.cached =>
            \A k \in EnvNames :
                proc.env[k] = IF proc.before[k] = "unset" THEN Defaults[k]
                              ELSE proc.before[k])
    /\ [][(proc.cached /\ proc'.op = "fix_unset_envs") => proc'.env = proc.env]_vars

\* C28: once init_distributed(fn) has completed distributed_initialized()
\* is true, and the guarded site has run the initializer at most once.
InitializerRunsOnce ==
    proc.inits >= 1 => (DistributedInitialized(proc) /\ proc.inits = 1)

\* C29: after an Engines.load_checkpoint with restart_step_count every
\* engine has its four counters at zero.
RestartZeroesCounters ==
    (lastOp.op = "load_all" /\ lastOp.restart /\ lastOp.exc = "none") =>
        \A n \in Names :
            /\ engines[0][n].global_steps = 0
            /\ engines[0][n].micro_steps = 0
            /\ engines[0][n].global_samples = 0
            /\ engines[0][n].tokens_processed = 0

\* C30: with a retention limit of at least one, whenever an engine's
\* "latest" exists the checkpoint it names exists and holds a state file.
LatestSurvivesPruning ==
    cfg.keep_last_checkpoints >= 1 =>
        \A n \in Names :
            disk[n].latest # None =>
                /\ disk[n].latest \in Tags(disk[n])
                /\ disk[n].file[disk[n].latest].kind # "missing"

\* rank r's feeder is being called for the first time for an engine of the
\* current step
FirstFeed(r) ==
    /\ run[r].pc = "forward"
    /\ run[r].fed[EngineNames[run[r].idx]] = 0

\* C31: in every call of Engines.step, each trainable engine's first feeder
\* call receives the batch with all the elements the caller passed in,
\* whatever the memory-exhaustion retries of the engines before it removed.
EveryEngineGetsWholeBatch ==
    \A r \in Ranks : FirstFeed(r) => run[r].batch = run[r].given

\* C32: the statistics Engines.step returns hold the entry "global_step"
\* that train() reads, so no pass of the loop whose step returned ends in a
\* KeyError: it goes on to the poll of the console.
StatsHoldGlobalStep ==
    \A r \in Ranks : ~(loop.at[r].pc = "done" /\ loop.at[r].how = "KeyError")

SymmapRoundTrip ==
    (lastOp.op = "tts" /\ tts.exc = "none") =>
        \A n \in Names :
            /\ "symmap" \in DOMAIN weights[n].state.userdata =>
                  /\ tts.symmap = weights[n].state.userdata.symmap
                  /\ ~tts.fallback
            /\ tts.fallback => "symmap" \notin DOMAIN weights[n].state.userdata

\* C36: when load_engines has built an engine from an exported file, the
\* engine's four counters are those of the file's stats block.
ExportedCountersRestored ==
    (lastOp.op = "load_engines" /\ lastOp.exc = "none") =>
        \A n \in Names :
            (cfg.load_state_dict \/ ~cfg.training[n]) =>
                /\ engines[0][n].global_steps = weights[n].state.stats.global_step
                /\ engines[0][n].micro_steps = weights[n].state.stats.micro_step
                /\ engines[0][n].global_samples = weights[n].state.stats.global_samples
                /\ engines[0][n].tokens_processed = weights[n].state.stats.tokens_processed

=============================================================================
